---- MODULE Spec2Model ----
(***************************************************************************)
(* TCP China congestion control (src/tcp_china.c) as a state machine.      *)
(*                                                                         *)
(* One connection: the socket fields the module reads and writes           *)
(* (tp->snd_cwnd, snd_ssthresh, snd_cwnd_cnt, snd_cwnd_clamp) and the       *)
(* module's private area (struct china: minrtt, artt, ai).                 *)
(*                                                                         *)
(* All socket fields are u32.  TLC's integers stop at 2^31-1, so a u32 is   *)
(* kept as two 16-bit limbs [hi, lo] and the C operators on it are the      *)
(* u32_* operators below, which wrap modulo 2^32 as the C ones do.          *)
(***************************************************************************)
EXTENDS Integers, Naturals, Sequences, FiniteSets, TLC

VARIABLES sk, last, calls, lowest

vars == <<sk, last, calls, lowest>>

(***************************************************************************)
(* u32 arithmetic                                                          *)
(***************************************************************************)
Limb == 256 * 256

\* the u32 with value n, for 0 <= n < 2^31
U(n) == [hi |-> n \div Limb, lo |-> n % Limb]

U32_MAX == [hi |-> Limb - 1, lo |-> Limb - 1]

u32_lt(a, b) == a.hi < b.hi \/ (a.hi = b.hi /\ a.lo < b.lo)

u32_le(a, b) == a = b \/ u32_lt(a, b)

u32_add(a, b) ==
    LET l == a.lo + b.lo
        h == a.hi + b.hi + (l \div Limb)
    IN  [hi |-> h % Limb, lo |-> l % Limb]

u32_sub(a, b) ==
    LET borrow == IF a.lo < b.lo THEN 1 ELSE 0
        l == a.lo + borrow * Limb - b.lo
        h == a.hi + Limb - b.hi - borrow
    IN  [hi |-> h % Limb, lo |-> l]

\* a >> k, for 0 < k < 16
u32_shr(a, k) ==
    LET p == 2 ^ k
    IN  [hi |-> a.hi \div p, lo |-> (a.lo \div p) + (a.hi % p) * (Limb \div p)]

\* the high limb of the exact product a * k before it is cut to 32 bits,
\* for a multiplier 0 <= k < 2^15
mul_high(a, k) == a.hi * k + ((a.lo * k) \div Limb)

\* a * k in u32 arithmetic (wraps modulo 2^32)
u32_mul(a, k) == [hi |-> mul_high(a, k) % Limb, lo |-> (a.lo * k) % Limb]

\* whether a * k exceeds 2^32 - 1, i.e. the u32 multiplication wraps
mul_wraps(a, k) == mul_high(a, k) >= Limb

u32_min(a, b) == IF u32_lt(b, a) THEN b ELSE a

u32_max(a, b) == IF u32_lt(a, b) THEN b ELSE a

\* s32 limits
S32_MAX == 2147483647

S32_MIN == -S32_MAX - 1

\* (u32)(r + 1) for an s32 r.  r + 1 is an int addition; at r = S32_MAX it
\* overflows, which the kernel's build (-fno-strict-overflow) makes wrap to
\* S32_MIN, i.e. 0x80000000 as a u32.
s32_plus1_to_u32(r) ==
    IF r = S32_MAX THEN [hi |-> Limb \div 2, lo |-> 0]
    ELSE IF r + 1 >= 0 THEN U(r + 1)
    ELSE LET m == -(r + 1) - 1      \* r + 1 = -(m + 1) = ~m
         IN  [hi |-> (Limb - 1) - (m \div Limb), lo |-> (Limb - 1) - (m % Limb)]

(***************************************************************************)
(* The AIMD table (RFC 3649 appendix B), <<cwnd, md>>, md scaled << 8      *)
(***************************************************************************)
hstcp_aimd_vals == <<
    <<38, 128>>, <<118, 112>>, <<221, 104>>, <<347, 98>>, <<495, 93>>,
    <<663, 89>>, <<851, 86>>, <<1058, 83>>, <<1284, 81>>, <<1529, 78>>,
    <<1793, 76>>, <<2076, 74>>, <<2378, 72>>, <<2699, 71>>, <<3039, 69>>,
    <<3399, 68>>, <<3778, 66>>, <<4177, 65>>, <<4596, 64>>, <<5036, 62>>,
    <<5497, 61>>, <<5979, 60>>, <<6483, 59>>, <<7009, 58>>, <<7558, 57>>,
    <<8130, 56>>, <<8726, 55>>, <<9346, 54>>, <<9991, 53>>, <<10661, 52>>,
    <<11358, 52>>, <<12082, 51>>, <<12834, 50>>, <<13614, 49>>, <<14424, 48>>,
    <<15265, 48>>, <<16137, 47>>, <<17042, 46>>, <<17981, 45>>, <<18955, 45>>,
    <<19965, 44>>, <<21013, 43>>, <<22101, 43>>, <<23230, 42>>, <<24402, 41>>,
    <<25618, 41>>, <<26881, 40>>, <<28193, 39>>, <<29557, 39>>, <<30975, 38>>,
    <<32450, 38>>, <<33986, 37>>, <<35586, 36>>, <<37253, 36>>, <<38992, 35>>,
    <<40808, 35>>, <<42707, 34>>, <<44694, 33>>, <<46776, 33>>, <<48961, 32>>,
    <<51258, 32>>, <<53677, 31>>, <<56230, 30>>, <<58932, 30>>, <<61799, 29>>,
    <<64851, 28>>, <<68113, 28>>, <<71617, 27>>, <<75401, 26>>, <<79517, 26>>,
    <<84035, 25>>, <<89053, 24>> >>

\* an entry count that takes in one entry past the end
aimd_max_one_past_end == Len(hstcp_aimd_vals) + 1

HSTCP_AIMD_MAX == Len(hstcp_aimd_vals)

\* hstcp_aimd_vals[i].cwnd and .md for a C (0-based) index i
aimd_cwnd(i) == U(hstcp_aimd_vals[i + 1][1])

aimd_md(i) == hstcp_aimd_vals[i + 1][2]

(***************************************************************************)
(* The module's operations, each a function of the socket record           *)
(***************************************************************************)
\* a reset that clears the average and forgets the minimum
reset_keeps_minrtt(s) == [s EXCEPT !.artt = U(0)]

tcp_china_reset(s) == [s EXCEPT !.minrtt = U(0), !.artt = U(0)]

\* 0xffffffff/128
MD_CLAMP == u32_shr(U32_MAX, 7)

\* an init that leaves the clamp as the stack set it
init_keeps_clamp(s) == [s EXCEPT !.ai = 0, !.minrtt = U(0), !.artt = U(0)]

\* an init that leaves ca->ai as it found it
init_keeps_ai(s) ==
    tcp_china_reset([s EXCEPT !.snd_cwnd_clamp = u32_min(@, MD_CLAMP)])

tcp_china_init(s) ==
    tcp_china_reset([s EXCEPT !.ai = 0,
                              !.snd_cwnd_clamp = u32_min(@, MD_CLAMP)])

\* an estimator that adds 1 only to a sample that is not positive
rtt_calc_plus1_if_not_positive(s, num_acked, rtt_us) ==
    LET rtt == IF rtt_us > 0 THEN U(rtt_us) ELSE s32_plus1_to_u32(rtt_us)
        minrtt == IF u32_lt(rtt, s.minrtt) \/ s.minrtt = U(0)
                  THEN rtt ELSE s.minrtt
        artt == IF u32_lt(U(0), s.artt)
                THEN u32_add(s.artt, u32_sub(u32_shr(rtt, 3), u32_shr(s.artt, 3)))
                ELSE rtt
    IN  [s EXCEPT !.artt = artt, !.minrtt = minrtt]

\* an estimator that takes a quarter of the old average away instead of an
\* eighth
rtt_calc_quarter_decay(s, num_acked, rtt_us) ==
    LET rtt == s32_plus1_to_u32(rtt_us)
        minrtt == IF u32_lt(rtt, s.minrtt) \/ s.minrtt = U(0)
                  THEN rtt ELSE s.minrtt
        artt == IF u32_lt(U(0), s.artt)
                THEN u32_add(s.artt, u32_sub(u32_shr(rtt, 3), u32_shr(s.artt, 2)))
                ELSE rtt
    IN  [s EXCEPT !.artt = artt, !.minrtt = minrtt]

tcp_china_rtt_calc(s, num_acked, rtt_us) ==
    LET rtt == s32_plus1_to_u32(rtt_us)
        minrtt == IF u32_lt(rtt, s.minrtt) \/ s.minrtt = U(0)
                  THEN rtt ELSE s.minrtt
        artt == IF u32_lt(U(0), s.artt)
                THEN u32_add(s.artt, u32_sub(u32_shr(rtt, 3), u32_shr(s.artt, 3)))
                ELSE rtt
    IN  [s EXCEPT !.artt = artt, !.minrtt = minrtt]

\* The kernel's slow-start helper, called at line 192; its body is not part
\* of this repository.  Taken from the description of on_ack: the window
\* grows by the acknowledged segments, never above the clamp.
tcp_slow_start(s, acked) ==
    [s EXCEPT !.snd_cwnd = u32_min(u32_add(s.snd_cwnd, U(acked)), s.snd_cwnd_clamp)]

\* an advance loop that also passes a threshold equal to the window
RECURSIVE advance_past_equal(_, _)
advance_past_equal(cwnd, ai) ==
    IF u32_le(aimd_cwnd(ai), cwnd) /\ ai < HSTCP_AIMD_MAX - 1
    THEN advance_past_equal(cwnd, ai + 1)
    ELSE ai

RECURSIVE advance_index_for(_, _)
advance_index_for(cwnd, ai) ==
    IF u32_lt(aimd_cwnd(ai), cwnd) /\ ai < HSTCP_AIMD_MAX - 1
    THEN advance_index_for(cwnd, ai + 1)
    ELSE ai

RECURSIVE retreat_index_for(_, _)
retreat_index_for(cwnd, ai) ==
    IF ai # 0 /\ u32_le(cwnd, aimd_cwnd(ai - 1))
    THEN retreat_index_for(cwnd, ai - 1)
    ELSE ai

\* an update whose loops are single steps
update_aimd_single_step(cwnd, ai) ==
    IF u32_lt(aimd_cwnd(ai), cwnd)
    THEN (IF ai < HSTCP_AIMD_MAX - 1 THEN ai + 1 ELSE ai)
    ELSE IF ai # 0 /\ u32_le(cwnd, aimd_cwnd(ai - 1)) THEN ai - 1
    ELSE ai

\* lines 207-217: either the advance loop or the retreat loop
update_aimd(cwnd, ai) ==
    IF u32_lt(aimd_cwnd(ai), cwnd) THEN advance_index_for(cwnd, ai)
    ELSE IF ai # 0 /\ u32_le(cwnd, aimd_cwnd(ai - 1)) THEN retreat_index_for(cwnd, ai)
    ELSE ai

\* an increase that adds ai, not ai + 1, to the counter
additive_increase_by_ai(s) ==
    IF u32_lt(s.snd_cwnd, s.snd_cwnd_clamp)
    THEN LET cnt == u32_add(s.snd_cwnd_cnt, U(s.ai))
         IN  IF u32_le(s.snd_cwnd, cnt)
             THEN [s EXCEPT !.snd_cwnd_cnt = u32_sub(cnt, s.snd_cwnd),
                            !.snd_cwnd = u32_add(s.snd_cwnd, U(1))]
             ELSE [s EXCEPT !.snd_cwnd_cnt = cnt]
    ELSE s

\* lines 219-227
additive_increase(s) ==
    IF u32_lt(s.snd_cwnd, s.snd_cwnd_clamp)
    THEN LET cnt == u32_add(s.snd_cwnd_cnt, U(s.ai + 1))
         IN  IF u32_le(s.snd_cwnd, cnt)
             THEN [s EXCEPT !.snd_cwnd_cnt = u32_sub(cnt, s.snd_cwnd),
                            !.snd_cwnd = u32_add(s.snd_cwnd, U(1))]
             ELSE [s EXCEPT !.snd_cwnd_cnt = cnt]
    ELSE s

\* cong_avoid without the early return
cong_avoid_always_grows(s, acked, is_cwnd_limited) ==
    IF u32_le(s.snd_cwnd, s.snd_ssthresh) THEN tcp_slow_start(s, acked)
    ELSE additive_increase([s EXCEPT !.ai = update_aimd(s.snd_cwnd, s.ai)])

\* cong_avoid with TCP-Africa's delay test left in: fast growth only while
\* the average RTT is at the minimum RTT
cong_avoid_delay_gated(s, acked, is_cwnd_limited) ==
    IF ~is_cwnd_limited THEN s
    ELSE IF u32_le(s.snd_cwnd, s.snd_ssthresh) THEN tcp_slow_start(s, acked)
    ELSE IF s.artt # s.minrtt THEN s
    ELSE additive_increase([s EXCEPT !.ai = update_aimd(s.snd_cwnd, s.ai)])

\* cong_avoid that is in slow start only below the threshold
cong_avoid_slow_start_below(s, acked, is_cwnd_limited) ==
    IF ~is_cwnd_limited THEN s
    ELSE IF u32_lt(s.snd_cwnd, s.snd_ssthresh) THEN tcp_slow_start(s, acked)
    ELSE additive_increase([s EXCEPT !.ai = update_aimd(s.snd_cwnd, s.ai)])

\* is_cwnd_limited is the answer of tcp_is_cwnd_limited(sk)
tcp_china_cong_avoid(s, acked, is_cwnd_limited) ==
    IF ~is_cwnd_limited THEN s
    ELSE IF u32_le(s.snd_cwnd, s.snd_ssthresh) THEN tcp_slow_start(s, acked)
    ELSE additive_increase([s EXCEPT !.ai = update_aimd(s.snd_cwnd, s.ai)])

\* ssthresh without the floor of 2
ssthresh_without_floor(s) ==
    u32_sub(s.snd_cwnd, u32_shr(u32_mul(s.snd_cwnd, aimd_md(s.ai)), 8))

\* ssthresh that takes md from the entry below the one ca->ai names
ssthresh_md_of_entry_below(s) ==
    LET md == IF s.ai > 0 THEN aimd_md(s.ai - 1) ELSE aimd_md(s.ai)
    IN  u32_max(u32_sub(s.snd_cwnd, u32_shr(u32_mul(s.snd_cwnd, md), 8)), U(2))

tcp_china_ssthresh(s) ==
    u32_max(u32_sub(s.snd_cwnd,
                    u32_shr(u32_mul(s.snd_cwnd, aimd_md(s.ai)), 8)),
            U(2))

(***************************************************************************)
(* The connection as the stack drives it                                   *)
(*                                                                         *)
(* sk    the socket fields and the private area                            *)
(* last  the last call made: its name, its arguments, the socket as it was  *)
(*       when the call was made, and what the call returned                 *)
(* calls the number of calls made since tcp_china_init                      *)
(* lowest the smallest value rtt (line 146) has had in a call since         *)
(*       tcp_china_init, if there was a call                                *)
(***************************************************************************)
MaxCalls == 4

\* TCP_INFINITE_SSTHRESH, the slow-start threshold of a new connection
InfiniteSsthresh == U(S32_MAX)

\* clamps the stack may hand to init: a small one, one below
\* 0xffffffff/128 and the default of a new socket (~0)
ClampIn == {U(40), U(1000000), U32_MAX}

\* windows the socket may have when init is called: around the slow-start
\* boundary and the first table thresholds (38, 118), inside the table, past
\* its last threshold (89053), and one above 0xffffffff/128
CwndIn == {U(2), U(37), U(38), U(39), U(118), U(10000), U(89054),
           u32_add(MD_CLAMP, U(1))}

SsthreshIn == {U(37), InfiniteSsthresh}

\* what the private area holds before init: zeroes, or what the congestion
\* control that used it before left there
StaleCa == {[minrtt |-> U(0), artt |-> U(0), ai |-> 0],
            [minrtt |-> U(7), artt |-> U(9), ai |-> 200]}

\* samples: two that are negative (the stack passes -1 when it has no
\* measurement) and two that are positive
RttSamples == {-2, -1, 100, 1000}

Acked == {1, 5}

NoCall == [op |-> "none", acked |-> 0, limited |-> FALSE, rtt_us |-> 0,
           ret |-> U(0), failed |-> FALSE]

Call(op, pre) == [NoCall EXCEPT !.op = op] @@ [pre |-> pre]

NoSample == [seen |-> FALSE, rtt |-> U(0)]

\* lowest, after a call of tcp_china_rtt_calc with rtt_us
lowest_with(l, rtt_us) ==
    LET rtt == s32_plus1_to_u32(rtt_us)
    IN  IF ~l.seen \/ u32_lt(rtt, l.rtt) THEN [seen |-> TRUE, rtt |-> rtt] ELSE l

Init ==
    /\ \E clamp \in ClampIn, cwnd \in CwndIn, ssthresh \in SsthreshIn, ca \in StaleCa :
         /\ u32_le(cwnd, clamp)
         /\ \E cnt \in {U(0), u32_sub(cwnd, U(1))} :
              sk = [snd_cwnd |-> cwnd, snd_ssthresh |-> ssthresh,
                    snd_cwnd_cnt |-> cnt, snd_cwnd_clamp |-> clamp,
                    minrtt |-> ca.minrtt, artt |-> ca.artt, ai |-> ca.ai]
    /\ last = Call("none", sk)
    /\ calls = 0
    /\ lowest = NoSample

Initialised == last.op # "none"

\* .init: called once, when the connection takes this congestion control.
\* The function returns void: there is no failure path.
init ==
    /\ ~Initialised
    /\ sk' = tcp_china_init(sk)
    /\ last' = Call("init", sk)
    /\ lowest' = NoSample
    /\ UNCHANGED calls

\* .pkts_acked
pkts_acked ==
    /\ Initialised /\ calls < MaxCalls
    /\ \E rtt_us \in RttSamples :
         /\ sk' = tcp_china_rtt_calc(sk, 1, rtt_us)
         /\ last' = [Call("pkts_acked", sk) EXCEPT !.rtt_us = rtt_us]
         /\ lowest' = lowest_with(lowest, rtt_us)
    /\ calls' = calls + 1

\* .cong_avoid
cong_avoid ==
    /\ Initialised /\ calls < MaxCalls
    /\ \E acked \in Acked, limited \in BOOLEAN :
         /\ sk' = tcp_china_cong_avoid(sk, acked, limited)
         /\ last' = [Call("cong_avoid", sk) EXCEPT !.acked = acked, !.limited = limited]
    /\ calls' = calls + 1
    /\ UNCHANGED lowest

\* .ssthresh that first brings the index in line with the window
ssthresh_resyncs_index ==
    /\ Initialised /\ calls < MaxCalls
    /\ sk' = [sk EXCEPT !.ai = update_aimd(sk.snd_cwnd, sk.ai)]
    /\ last' = [Call("ssthresh", sk) EXCEPT !.ret = tcp_china_ssthresh(sk')]
    /\ calls' = calls + 1
    /\ UNCHANGED lowest

\* .ssthresh: the stack asks for the new threshold; nothing is written
ssthresh ==
    /\ Initialised /\ calls < MaxCalls
    /\ last' = [Call("ssthresh", sk) EXCEPT !.ret = tcp_china_ssthresh(sk)]
    /\ calls' = calls + 1
    /\ UNCHANGED <<sk, lowest>>

\* The stack, having asked for the new threshold, applies it: the threshold
\* is stored and the window is brought down to it.
stack_reduce ==
    /\ last.op = "ssthresh"
    /\ sk' = [sk EXCEPT !.snd_ssthresh = last.ret,
                        !.snd_cwnd = u32_min(@, last.ret),
                        !.snd_cwnd_cnt = U(0)]
    /\ last' = Call("stack_reduce", sk)
    /\ UNCHANGED <<calls, lowest>>

Next == init \/ pkts_acked \/ cong_avoid \/ ssthresh \/ stack_reduce

Spec == Init /\ [][Next]_vars

(***************************************************************************)
(* Vocabulary of the properties                                            *)
(***************************************************************************)
\* the last call was op
Did(op) == last.op = op

\* the last call was a window-limited cong_avoid made in slow start / in
\* fast growth
DidSlowStart ==
    Did("cong_avoid") /\ last.limited /\ u32_le(last.pre.snd_cwnd, last.pre.snd_ssthresh)

DidFastGrowth ==
    Did("cong_avoid") /\ last.limited /\ u32_lt(last.pre.snd_ssthresh, last.pre.snd_cwnd)

\* the boundary relation between a window w and a table index i:
\* table[i-1].threshold < w <= table[i].threshold, the upper half waived at
\* the last index
Boundary(w, i) ==
    /\ i \in 0 .. HSTCP_AIMD_MAX - 1
    /\ i > 0 => u32_lt(U(hstcp_aimd_vals[i][1]), w)
    /\ i < HSTCP_AIMD_MAX - 1 => u32_le(w, U(hstcp_aimd_vals[i + 1][1]))

\* the fields the growth and decrease decisions live in
Window(s) == <<s.snd_cwnd, s.snd_ssthresh, s.snd_cwnd_cnt, s.snd_cwnd_clamp, s.ai>>

\* 0xffffffff/128 = 33554431 = 511 * 65536 + 65535
ClampLimit == [hi |-> 511, lo |-> 65535]

(***************************************************************************)
(* C1                                                                      *)
(***************************************************************************)
\* C1 (as stated): after an on_ack call the boundary relation holds between
\* the current window and table_index.  Stated here for the calls made in a
\* state where the relation held, so that a violation is the call's doing.
C1_IndexInvariantAfterAck ==
    (Did("cong_avoid") /\ Boundary(last.pre.snd_cwnd, last.pre.ai))
        => Boundary(sk.snd_cwnd, sk.ai)

\* C1 (amended): a window-limited fast-growth on_ack leaves table_index in
\* the boundary relation with the window as it was when the call was made;
\* the additive increase that follows may then raise the window by one, past
\* table[table_index].threshold.  Every other on_ack leaves table_index as
\* it was.
C1_IndexTracksWindowAtCall ==
    /\ DidFastGrowth =>
         /\ Boundary(last.pre.snd_cwnd, sk.ai)
         /\ sk.snd_cwnd \in {last.pre.snd_cwnd, u32_add(last.pre.snd_cwnd, U(1))}
    /\ (Did("cong_avoid") /\ ~DidFastGrowth) => sk.ai = last.pre.ai

\* a fast-growth call that moved the index and then raised the window past
\* the threshold of the index it had just chosen
C1_Witness ==
    /\ DidFastGrowth
    /\ sk.ai > 0 /\ sk.ai # last.pre.ai
    /\ sk.snd_cwnd = u32_add(last.pre.snd_cwnd, U(1))
    /\ ~Boundary(sk.snd_cwnd, sk.ai)

(***************************************************************************)
(* C2                                                                      *)
(***************************************************************************)
\* C2: on_ack with is_window_limited = false changes nothing: window,
\* threshold, counter, clamp, table_index, min_rtt and avg_rtt are as before.
C2_NotLimitedIsNoOp ==
    (Did("cong_avoid") /\ ~last.limited) => sk = last.pre

\* a call that was not window-limited, made in a state that a window-limited
\* call with the same count would have changed
C2_Witness ==
    /\ Did("cong_avoid") /\ ~last.limited
    /\ tcp_china_cong_avoid(last.pre, last.acked, TRUE) # last.pre

(***************************************************************************)
(* C3                                                                      *)
(***************************************************************************)
\* C3: the product window * decrease_factor that on_congestion_event
\* computes never exceeds 2^32 - 1 (the window was <= the clamp when init
\* was called).
C3_ProductNeverWraps ==
    Did("ssthresh") => ~mul_wraps(last.pre.snd_cwnd, aimd_md(last.pre.ai))

(***************************************************************************)
(* C4                                                                      *)
(***************************************************************************)
\* C4 (as stated): init rejects a clamp above MAX_UNSIGNED / 128: it ends in
\* an error.
C4_InitRejectsLargeClamp ==
    (Did("init") /\ u32_lt(ClampLimit, last.pre.snd_cwnd_clamp)) => last.failed

\* C4 (amended): init does not reject a clamp above MAX_UNSIGNED / 128: it
\* completes normally and stores MAX_UNSIGNED / 128 as the clamp.
C4_InitReducesLargeClamp ==
    (Did("init") /\ u32_lt(ClampLimit, last.pre.snd_cwnd_clamp))
        => (~last.failed /\ sk.snd_cwnd_clamp = ClampLimit)

\* init was called with the clamp of a new socket, ~0
C4_Witness ==
    Did("init") /\ last.pre.snd_cwnd_clamp = U32_MAX /\ sk.snd_cwnd_clamp # U32_MAX

(***************************************************************************)
(* C5                                                                      *)
(***************************************************************************)
\* C5: after init table_index = 0, min_rtt = 0, avg_rtt = 0, the stored
\* clamp is min(clamp_in, 0xffffffff / 128), and window, threshold and
\* counter are as before.
C5_InitPostcondition ==
    Did("init") =>
        /\ sk.ai = 0 /\ sk.minrtt = U(0) /\ sk.artt = U(0)
        /\ sk.snd_cwnd_clamp = IF u32_lt(ClampLimit, last.pre.snd_cwnd_clamp)
                               THEN ClampLimit ELSE last.pre.snd_cwnd_clamp
        /\ sk.snd_cwnd = last.pre.snd_cwnd
        /\ sk.snd_ssthresh = last.pre.snd_ssthresh
        /\ sk.snd_cwnd_cnt = last.pre.snd_cwnd_cnt

\* init on a private area that held something, with a clamp it has to lower
C5_Witness ==
    /\ Did("init")
    /\ last.pre.ai # 0 /\ last.pre.minrtt # U(0) /\ last.pre.artt # U(0)
    /\ u32_lt(ClampLimit, last.pre.snd_cwnd_clamp)
    /\ sk.snd_cwnd_cnt # U(0)

(***************************************************************************)
(* C6                                                                      *)
(***************************************************************************)
\* C6: after record_sample, whatever the signed sample, min_rtt and avg_rtt
\* are both non-zero.
C6_RttNeverZero ==
    Did("pkts_acked") => (sk.minrtt # U(0) /\ sk.artt # U(0))

(***************************************************************************)
(* C7                                                                      *)
(***************************************************************************)
\* the last call was record_sample on a fresh estimator with a strictly
\* positive sample
DidFirstPositiveSample ==
    /\ Did("pkts_acked")
    /\ last.pre.minrtt = U(0) /\ last.pre.artt = U(0)
    /\ last.rtt_us > 0

\* C7 (as stated): on a fresh state record_sample(v, n) with v > 0 sets
\* min_rtt = v and avg_rtt = v.
C7_PositiveSampleStoredAsIs ==
    DidFirstPositiveSample => (sk.minrtt = U(last.rtt_us) /\ sk.artt = U(last.rtt_us))

\* C7 (amended): on a fresh state record_sample(v, n) with v > 0 sets
\* min_rtt = v + 1 and avg_rtt = v + 1: the + 1 is applied to every sample.
C7_PositiveSampleStoredPlusOne ==
    (DidFirstPositiveSample /\ last.rtt_us < S32_MAX)
        => (sk.minrtt = U(last.rtt_us + 1) /\ sk.artt = U(last.rtt_us + 1))

\* record_sample(100, 1) on a fresh state, leaving 101 and 101
C7_Witness ==
    /\ DidFirstPositiveSample /\ last.rtt_us = 100
    /\ sk.minrtt = U(101) /\ sk.artt = U(101)

(***************************************************************************)
(* C8: record_sample called again and again with one value                 *)
(***************************************************************************)
\* averages the estimator may hold from earlier samples
EarlierSamples == {0, 49, 95, 96, 102, 103, 119, 1000, 8191}

ConstSamples == {-9, -1, 0, 7, 100, 1000}

\* a new socket: initial window 10, no threshold yet, no clamp
NewSocket == [snd_cwnd |-> U(10), snd_ssthresh |-> InfiniteSsthresh,
              snd_cwnd_cnt |-> U(0), snd_cwnd_clamp |-> U32_MAX,
              minrtt |-> U(0), artt |-> U(0), ai |-> 0]

\* A connection after init whose estimator is unset, or has taken one
\* earlier sample.
InitConstRtt ==
    /\ \/ /\ sk = tcp_china_init(NewSocket)
          /\ last = Call("init", NewSocket)
          /\ lowest = NoSample
       \/ \E e \in EarlierSamples :
            /\ sk = tcp_china_rtt_calc(tcp_china_init(NewSocket), 1, e)
            /\ last = [Call("pkts_acked", tcp_china_init(NewSocket)) EXCEPT !.rtt_us = e]
            /\ lowest = lowest_with(NoSample, e)
    /\ calls = 0

\* .pkts_acked with the value of the call before; the first such call picks
\* the value.  calls tells only whether the value has been picked.
pkts_acked_same ==
    /\ \E rtt_us \in ConstSamples :
         /\ calls > 0 => rtt_us = last.rtt_us
         /\ sk' = tcp_china_rtt_calc(sk, 1, rtt_us)
         /\ last' = [Call("pkts_acked", sk) EXCEPT !.rtt_us = rtt_us]
         /\ lowest' = lowest_with(lowest, rtt_us)
    /\ calls' = 1

NextConstRtt == pkts_acked_same

\* the stack keeps calling: that is the claim's hypothesis
SpecConstRtt == InitConstRtt /\ [][NextConstRtt]_vars /\ WF_vars(pkts_acked_same)

\* the value has been picked and given at least once
SampleRepeated == calls > 0 /\ Did("pkts_acked")

\* the sample as the u32 it is stored as (rtt_us + 1), and the sample itself
\* as a u32
StoredSample == s32_plus1_to_u32(last.rtt_us)

RawSample == IF last.rtt_us = S32_MIN THEN [hi |-> Limb \div 2, lo |-> 0]
             ELSE s32_plus1_to_u32(last.rtt_us - 1)

\* C8 (as stated): with record_sample called repeatedly with one value v,
\* avg_rtt eventually equals v and stays equal to v.
C8_AvgConvergesToSample ==
    <>[](SampleRepeated /\ sk.artt = RawSample)

\* C8 (amended): with record_sample called repeatedly with one value v,
\* avg_rtt eventually lies in the same block of 8 as v + 1
\* (avg_rtt >> 3 = (v + 1) >> 3) and from then on no call changes it.
C8_AvgConvergesToBlockOfSample ==
    <>[](/\ SampleRepeated
         /\ u32_shr(sk.artt, 3) = u32_shr(StoredSample, 3)
         /\ sk.artt = last.pre.artt)

\* from an average of 1001 the value 100, given again and again, has brought
\* the average down to rest at 103: neither 100 nor 101
C8_Witness ==
    /\ SampleRepeated /\ last.rtt_us = 100
    /\ sk.minrtt = U(101)
    /\ sk.artt = U(103) /\ last.pre.artt = U(103)

(***************************************************************************)
(* C9                                                                      *)
(***************************************************************************)
\* estimator contents <<min_rtt, avg_rtt>> to compare against: unset, and a
\* minimum of 1 under the largest average
RttAlt == {<<U(0), U(0)>>, <<U(1), U32_MAX>>}

\* C9: record_sample changes only min_rtt and avg_rtt; and from two states
\* that differ only in min_rtt / avg_rtt the same on_ack or
\* on_congestion_event call gives the same window, threshold, counter, clamp,
\* table_index and returned threshold, and leaves each state's min_rtt /
\* avg_rtt alone, so the two still differ only there and the same holds of
\* every further call.  Every reachable state is compared with the states
\* that hold RttAlt instead; two states that agree with a third agree.
C9_RttNonInterference ==
    /\ Did("pkts_acked") => Window(sk) = Window(last.pre)
    /\ Initialised =>
         \A r \in RttAlt :
            LET other == [sk EXCEPT !.minrtt = r[1], !.artt = r[2]]
            IN  /\ tcp_china_ssthresh(other) = tcp_china_ssthresh(sk)
                /\ \A acked \in Acked, limited \in BOOLEAN :
                     LET t == tcp_china_cong_avoid(other, acked, limited)
                     IN  /\ Window(t) = Window(tcp_china_cong_avoid(sk, acked, limited))
                         /\ t.minrtt = r[1] /\ t.artt = r[2]

\* a fast-growth call that raised the window of a connection whose
\* estimator holds an average above its minimum
C9_Witness ==
    /\ DidFastGrowth
    /\ sk.snd_cwnd # last.pre.snd_cwnd
    /\ sk.minrtt # U(0) /\ u32_lt(sk.minrtt, sk.artt)

(***************************************************************************)
(* C10                                                                     *)
(***************************************************************************)
\* pre.snd_cwnd + acked, cut at the clamp (no u32 wrap: the window is at
\* most the clamp, which init keeps at or below 0xffffffff/128)
GrownWindow ==
    LET sum == u32_add(last.pre.snd_cwnd, U(last.acked))
    IN  IF u32_lt(last.pre.snd_cwnd_clamp, sum) THEN last.pre.snd_cwnd_clamp ELSE sum

\* C10: a window-limited on_ack made with window <= threshold (and window <=
\* clamp) leaves a window that is >= the window before and <= the clamp: the
\* window before plus the acknowledged count, cut at the clamp.  Window 37,
\* threshold 37, on_ack(1, true) gives 38.
C10_SlowStartMonotone ==
    (DidSlowStart /\ u32_le(last.pre.snd_cwnd, last.pre.snd_cwnd_clamp)) =>
        /\ u32_le(last.pre.snd_cwnd, sk.snd_cwnd)
        /\ u32_le(sk.snd_cwnd, sk.snd_cwnd_clamp)
        /\ sk.snd_cwnd = GrownWindow
        /\ (last.pre.snd_cwnd = U(37) /\ last.acked = 1) => sk.snd_cwnd = U(38)

\* window 37, threshold 37, on_ack(1, true): the window is 38
C10_Witness ==
    /\ DidSlowStart
    /\ last.pre.snd_cwnd = U(37) /\ last.pre.snd_ssthresh = U(37) /\ last.acked = 1
    /\ sk.snd_cwnd = U(38)

(***************************************************************************)
(* The table operations at every index                                     *)
(*                                                                         *)
(* One call of cong_avoid or ssthresh made in a state that pairs a window  *)
(* with any index of the table.  Slow start grows the window without       *)
(* moving the index and the stack shrinks the window without moving it, so *)
(* a window can meet any index.                                            *)
(***************************************************************************)
\* windows below, at and above the thresholds 38, 118, 84035 and 89053, one
\* inside the table, and 0xffffffff/128
WindowsAt == {U(1), U(2), U(3), U(37), U(38), U(39), U(118), U(119), U(10000),
              U(84036), U(89053), U(89054), MD_CLAMP}

\* a clamp in the middle of WindowsAt, and the largest one init leaves
ClampsAt == {U(119), MD_CLAMP}

\* the lowest threshold tcp_china_ssthresh returns, and that of a new connection
SsthreshAt == {U(2), InfiniteSsthresh}

InitAnyIndex ==
    /\ \E cwnd \in WindowsAt, ai \in 0 .. HSTCP_AIMD_MAX - 1, clamp \in ClampsAt,
          thresh \in SsthreshAt :
         \E cnt \in {U(0), u32_sub(cwnd, U(1))} :
            sk = [snd_cwnd |-> cwnd, snd_ssthresh |-> thresh, snd_cwnd_cnt |-> cnt,
                  snd_cwnd_clamp |-> clamp, minrtt |-> U(0), artt |-> U(0), ai |-> ai]
    /\ last = [Call("cong_avoid", sk) EXCEPT !.acked = 1]
    /\ calls = 0
    /\ lowest = NoSample

\* the one call made is .cong_avoid
one_cong_avoid == calls = 0 /\ cong_avoid

\* the one call made is .ssthresh
one_ssthresh == calls = 0 /\ ssthresh

NextAnyIndex == one_cong_avoid \/ one_ssthresh

SpecAnyIndex == InitAnyIndex /\ [][NextAnyIndex]_vars

\* the number a u32 below 2^31 stands for
Val(u) == u.hi * Limb + u.lo

(***************************************************************************)
(* C11                                                                     *)
(***************************************************************************)
\* window minus its cut (window * decrease_factor) >> 8, not below 2,
\* in unbounded integers; 256 * q + r = window splits the product so that no
\* intermediate value passes 2^31
DecreasedWindow(window, decrease_factor) ==
    LET q   == window \div 256
        r   == window % 256
        cut == q * decrease_factor + ((r * decrease_factor) \div 256)
    IN  IF window - cut >= 2 THEN window - cut ELSE 2

\* C11: for every window >= 2 that is at most the clamp, and every
\* table_index in 0 .. table_len-1, on_congestion_event returns
\* max(window - ((window * table[table_index].decrease_factor) >> 8), 2),
\* which is never below 2.
C11_DecreaseFloor ==
    (/\ Did("ssthresh")
     /\ u32_le(U(2), last.pre.snd_cwnd)
     /\ u32_le(last.pre.snd_cwnd, last.pre.snd_cwnd_clamp)
     /\ last.pre.ai \in 0 .. HSTCP_AIMD_MAX - 1)
        => /\ Val(last.ret) = DecreasedWindow(Val(last.pre.snd_cwnd),
                                             hstcp_aimd_vals[last.pre.ai + 1][2])
           /\ Val(last.ret) >= 2

\* window 2 at index 0 (decrease_factor 128): 2 - 1 = 1 is raised to 2
C11_Witness ==
    /\ Did("ssthresh")
    /\ last.pre.snd_cwnd = U(2) /\ last.pre.ai = 0
    /\ last.pre.snd_cwnd_clamp = MD_CLAMP
    /\ last.ret = U(2)

(***************************************************************************)
(* C12                                                                     *)
(***************************************************************************)
\* C12: on_congestion_event only reads: window, threshold, counter, clamp,
\* table_index, min_rtt and avg_rtt are as before the call (the index is not
\* brought in line with the window, the window is not lowered), and a second
\* call made right after it returns the same value.
C12_DecreaseIsPureRead ==
    Did("ssthresh") =>
        /\ sk = last.pre
        /\ tcp_china_ssthresh(sk) = last.ret

\* a call made while the index was behind the window and the value returned
\* was below the window: neither the index nor the window moved
C12_Witness ==
    /\ Did("ssthresh")
    /\ update_aimd(last.pre.snd_cwnd, last.pre.ai) # last.pre.ai
    /\ u32_lt(last.ret, last.pre.snd_cwnd)
    /\ sk.ai = last.pre.ai /\ sk.snd_cwnd = last.pre.snd_cwnd

(***************************************************************************)
(* C13                                                                     *)
(***************************************************************************)
\* the call was on_congestion_event at window 10000 with table_index at the
\* entry whose bracket contains 10000
DidDecreaseAt10000 ==
    /\ Did("ssthresh")
    /\ last.pre.snd_cwnd = U(10000)
    /\ Boundary(U(10000), last.pre.ai)

\* C13 (as stated): at window 10000, with table_index at the entry whose
\* bracket contains 10000, that entry's decrease_factor is 53 and
\* on_congestion_event returns 10000 - ((10000 * 53) >> 8) = 7930.
C13_Decrease10000Gives7930 ==
    DidDecreaseAt10000 =>
        /\ hstcp_aimd_vals[last.pre.ai + 1][2] = 53
        /\ last.ret = U(7930)

\* C13 (amended): the entry whose bracket contains 10000 is the one with
\* threshold 10661 (9991 < 10000 <= 10661), its decrease_factor is 52 and
\* on_congestion_event returns 10000 - ((10000 * 52) >> 8) = 7969.
C13_Decrease10000Gives7969 ==
    DidDecreaseAt10000 =>
        /\ hstcp_aimd_vals[last.pre.ai][1] = 9991
        /\ hstcp_aimd_vals[last.pre.ai + 1] = <<10661, 52>>
        /\ last.ret = U(7969)

\* the index had been brought to the bracket of 10000 by a fast-growth
\* on_ack before on_congestion_event was called
C13_Witness ==
    /\ DidDecreaseAt10000
    /\ calls >= 2
    /\ last.ret = U(10000 - ((10000 * 52) \div 256))

(***************************************************************************)
(* C14                                                                     *)
(***************************************************************************)
\* the thresholds of the table rise strictly from each entry to the next
ThresholdsStrictlyIncreasing ==
    \A i \in 1 .. Len(hstcp_aimd_vals) - 1 :
        hstcp_aimd_vals[i][1] < hstcp_aimd_vals[i + 1][1]

\* C14 (as stated): in every state after init the growth table is a fixed
\* sequence of 73 entries whose thresholds are strictly increasing; no
\* operation changes an entry.
C14_TableOf73Entries ==
    Initialised => (HSTCP_AIMD_MAX = 73 /\ ThresholdsStrictlyIncreasing)

\* C14 (amended): in every state after init the growth table is a fixed
\* sequence of 72 entries whose thresholds are strictly increasing, from 38
\* to 89053; no operation changes an entry (the table is a constant of the
\* program, not part of its state).
C14_TableOf72Entries ==
    Initialised =>
        /\ HSTCP_AIMD_MAX = 72
        /\ ThresholdsStrictlyIncreasing
        /\ hstcp_aimd_vals[1][1] = 38
        /\ hstcp_aimd_vals[72][1] = 89053
        /\ sk.ai = HSTCP_AIMD_MAX - 1 => aimd_cwnd(sk.ai) = U(89053)

\* a fast-growth on_ack walked the index through the whole table, from the
\* first entry to the last
C14_Witness ==
    /\ DidFastGrowth
    /\ last.pre.ai = 0
    /\ sk.ai = HSTCP_AIMD_MAX - 1

(***************************************************************************)
(* C15                                                                     *)
(***************************************************************************)
\* the index a search of the whole table gives for window w: the least i
\* with w <= table[i].threshold, the last index if there is none
FullSearch(w) ==
    LET fit == {i \in 0 .. HSTCP_AIMD_MAX - 1 : u32_le(w, aimd_cwnd(i))}
                   \cup {HSTCP_AIMD_MAX - 1}
    IN  CHOOSE i \in fit : \A j \in fit : i <= j

\* how many table steps the index of s is away from the index of its window
IndexLag(s) ==
    LET d == FullSearch(s.snd_cwnd) - s.ai
    IN  IF d >= 0 THEN d ELSE -d

\* C15 (as stated): after any sequence of on_ack calls the table_index that
\* on_congestion_event would use is at most one table step away from the
\* index the boundary relation gives for the current window.  Stated here
\* for the on_ack calls made in a state where this held, so that a violation
\* is the call's doing.
C15_IndexLagAtMostOne ==
    (Did("cong_avoid") /\ IndexLag(last.pre) <= 1) => IndexLag(sk) <= 1

\* C15 (amended): right after a window-limited fast-growth on_ack
\* table_index is the index of the current window or one step below it.
\* Every other on_ack (slow start, or not window-limited) leaves table_index
\* where it was while slow start moves the window, so the index that
\* on_congestion_event uses can be any number of steps behind.
C15_IndexLagAfterFastGrowth ==
    /\ DidFastGrowth => FullSearch(sk.snd_cwnd) - sk.ai \in {0, 1}
    /\ (Did("cong_avoid") /\ ~DidFastGrowth) => sk.ai = last.pre.ai

\* a fast-growth on_ack that found the index more than one step behind the
\* window, where slow start or init had left it, and brought it to the
\* window
C15_Witness ==
    /\ DidFastGrowth
    /\ IndexLag(last.pre) > 1
    /\ IndexLag(sk) <= 1

(***************************************************************************)
(* C16                                                                     *)
(***************************************************************************)
\* C16: for every window and every prior table_index in 0 .. table_len-1,
\* the index a fast-growth on_ack leaves (the code's either-advance-or-
\* retreat update) is the one advance_index_for followed by
\* retreat_index_for gives, and it is the one a search of the whole table
\* gives: the least i with window <= table[i].threshold, or table_len-1 when
\* the window is above every threshold.  Window 38 with index 0 stays at 0.
C16_UpdateIsFullSearch ==
    (DidFastGrowth /\ last.pre.ai \in 0 .. HSTCP_AIMD_MAX - 1) =>
        LET window == last.pre.snd_cwnd
        IN  /\ sk.ai = retreat_index_for(window, advance_index_for(window, last.pre.ai))
            /\ sk.ai = FullSearch(window)
            /\ (window = U(38) /\ last.pre.ai = 0) => sk.ai = 0

\* window 118, which is a threshold, met with the last index of the table:
\* the index came down 70 steps to 1
C16_Witness ==
    /\ DidFastGrowth
    /\ last.pre.snd_cwnd = U(118) /\ last.pre.ai = HSTCP_AIMD_MAX - 1
    /\ sk.ai = 1

(***************************************************************************)
(* C17                                                                     *)
(***************************************************************************)
\* C17: a window-limited on_ack made with window > threshold, whatever its
\* acknowledged count: if window < clamp, the counter grows by the
\* re-synchronised table_index + 1 and, exactly when it is then >= window,
\* window is taken off the counter and the window grows by one; if window >=
\* clamp, window and counter stay as they were.  So the window grows by 0 or
\* 1 and is not raised above the clamp.  (Numbers are compared as integers;
\* none of them reaches 2^31.)
C17_FastGrowthStep ==
    DidFastGrowth =>
        LET window  == Val(last.pre.snd_cwnd)
            clamp   == Val(last.pre.snd_cwnd_clamp)
            counter == Val(last.pre.snd_cwnd_cnt) + (sk.ai + 1)
        IN  /\ IF window < clamp
               THEN IF counter >= window
                    THEN /\ Val(sk.snd_cwnd_cnt) = counter - window
                         /\ Val(sk.snd_cwnd) = window + 1
                    ELSE /\ Val(sk.snd_cwnd_cnt) = counter
                         /\ Val(sk.snd_cwnd) = window
               ELSE /\ sk.snd_cwnd_cnt = last.pre.snd_cwnd_cnt
                    /\ sk.snd_cwnd = last.pre.snd_cwnd
            /\ Val(sk.snd_cwnd) - window \in {0, 1}
            /\ Val(sk.snd_cwnd) > window => Val(sk.snd_cwnd) <= clamp
            /\ sk.snd_cwnd_clamp = last.pre.snd_cwnd_clamp
            /\ sk.snd_ssthresh = last.pre.snd_ssthresh

\* the counter stood one below the window at an index above 0: the window
\* grew by one and the counter kept the excess, which is the index
C17_Witness ==
    /\ DidFastGrowth
    /\ last.pre.snd_cwnd_cnt = u32_sub(last.pre.snd_cwnd, U(1))
    /\ sk.ai > 0
    /\ sk.snd_cwnd = u32_add(last.pre.snd_cwnd, U(1))
    /\ sk.snd_cwnd_cnt = U(sk.ai)

(***************************************************************************)
(* C18                                                                     *)
(***************************************************************************)
\* C18: after init and one or more record_sample calls, whatever the signed
\* samples, min_rtt is the smallest of the normalised values taken in so
\* far, and a record_sample call made when min_rtt is set (not 0) leaves it
\* no higher than it was.
C18_MinRttIsSmallestSample ==
    (Initialised /\ lowest.seen) =>
        /\ sk.minrtt = lowest.rtt
        /\ (Did("pkts_acked") /\ last.pre.minrtt # U(0)) =>
              u32_le(sk.minrtt, last.pre.minrtt)

(***************************************************************************)
(* C19                                                                     *)
(***************************************************************************)
\* C19: in every state after init, whatever calls of record_sample, on_ack
\* and on_congestion_event were made, 0 <= table_index <= table_len-1, so
\* that table[table_index] is an entry of the table; and table[table_index-1]
\* is read only when table_index > 0: the index update, run from the state,
\* reads only entries of the table and gives an index of the table again,
\* and its retreat loop ends at an index from 0 to table_index.
C19_IndexInBounds ==
    Initialised =>
        /\ sk.ai \in 0 .. HSTCP_AIMD_MAX - 1
        /\ sk.ai + 1 \in DOMAIN hstcp_aimd_vals
        /\ update_aimd(sk.snd_cwnd, sk.ai) \in 0 .. HSTCP_AIMD_MAX - 1
        /\ retreat_index_for(sk.snd_cwnd, sk.ai) \in 0 .. sk.ai

\* a fast-growth on_ack with the window above every threshold: the advance
\* loop was stopped by the end of the table, not by a threshold
C19_Witness ==
    /\ DidFastGrowth
    /\ sk.ai = HSTCP_AIMD_MAX - 1
    /\ u32_lt(aimd_cwnd(HSTCP_AIMD_MAX - 1), last.pre.snd_cwnd)

(***************************************************************************)
(* C20                                                                     *)
(*                                                                         *)
(* A connection on which, after init, window-limited acknowledgements keep *)
(* arriving and nothing else happens.                                      *)
(***************************************************************************)
\* a clamp small enough for the window to be followed all the way to it
GrowthClamp == U(40)

\* windows at init: the smallest, around the lowest threshold, and at and
\* around the slow-start threshold 37 and the first table threshold 38
GrowthWindows == {U(1), U(2), U(3), U(36), U(37), U(38), U(39)}

\* thresholds at init: below and inside GrowthWindows, and that of a new
\* connection
GrowthSsthresh == {U(2), U(37), InfiniteSsthresh}

InitGrowth ==
    /\ \E cwnd \in GrowthWindows, thresh \in GrowthSsthresh, ca \in StaleCa :
         \E cnt \in {U(0), u32_sub(cwnd, U(1))} :
            LET pre == [snd_cwnd |-> cwnd, snd_ssthresh |-> thresh, snd_cwnd_cnt |-> cnt,
                        snd_cwnd_clamp |-> GrowthClamp,
                        minrtt |-> ca.minrtt, artt |-> ca.artt, ai |-> ca.ai]
            IN  /\ sk = tcp_china_init(pre)
                /\ last = Call("init", pre)
    /\ calls = 0
    /\ lowest = NoSample

\* .cong_avoid, called for acknowledgements that found the window limiting
cong_avoid_limited ==
    /\ Initialised
    /\ \E acked \in Acked :
         /\ sk' = tcp_china_cong_avoid(sk, acked, TRUE)
         /\ last' = [Call("cong_avoid", sk) EXCEPT !.acked = acked, !.limited = TRUE]
    /\ calls' = 1
    /\ UNCHANGED lowest

NextGrowth == cong_avoid_limited

\* the acknowledgements keep arriving
SpecGrowth == InitGrowth /\ [][NextGrowth]_vars /\ WF_vars(cong_avoid_limited)

\* C20: from a state after init with 1 <= window < clamp and counter <
\* window, if window-limited on_ack calls with acked >= 1 keep being made and
\* nothing else is, no call lowers the window, the window reaches the clamp
\* after finitely many calls, and it stays at the clamp from then on; in slow
\* start and in fast growth, and from window = threshold too.
C20_WindowReachesClamp ==
    /\ [][u32_le(sk.snd_cwnd, sk.snd_cwnd')]_vars
    /\ <>[](sk.snd_cwnd = sk.snd_cwnd_clamp)

\* the window came to the clamp by a fast-growth step, on a connection that
\* had been in slow start at window = threshold
C20_Witness ==
    /\ DidFastGrowth
    /\ u32_lt(last.pre.snd_cwnd, last.pre.snd_cwnd_clamp)
    /\ sk.snd_cwnd = sk.snd_cwnd_clamp
    /\ sk.snd_ssthresh = U(37)

====
